---- MODULE Spec2Model ----
(***************************************************************************)
(* Cold Outreach API (src/main.py): the HTTP routes over the document      *)
(* store and the e-mail generation service, as a state machine.            *)
(*                                                                         *)
(* Text is a sequence of one-character strings, so that lengths, slices,   *)
(* concatenation and lower-casing are computed as the code computes them.  *)
(* A Python value whose type matters is a record tagged with its type.     *)
(***************************************************************************)
EXTENDS Integers, Sequences, FiniteSets, TLC

VARIABLES
    db,              \* the store handle and its reachability: "absent", "down", "up"
    store,           \* collection name -> sequence of persisted records
    nextId,          \* the next identifier the store will assign
    issued,          \* the identifiers returned by successful create requests
    OPENAI_API_KEY,  \* the generation credential read at import (main.py:113)
    gen,             \* the POST /generate request in flight, its outbound calls
    response         \* the last response delivered to a caller

vars == <<db, store, nextId, issued, OPENAI_API_KEY, gen, response>>

----------------------------------------------------------------------------
(* Bounds of the model *)

MaxRecords == 2        \* records persisted in a run
MaxErrLen == 152       \* longest failure text of the external call or probe
MaxLimit == 3          \* largest limit query parameter tried
MaxOtherCollections == 11  \* collections of the database beyond the four used here

(* Program constants *)

GenerationErrorCut == 150   \* str(e)[:150]
ProbeErrorCut == 80         \* str(e)[:80]
CollectionsCut == 10        \* list_collection_names()[:10]
DefaultLimit == 20          \* limit: int = 20

----------------------------------------------------------------------------
(* Text *)

Min(a, b) == IF a < b THEN a ELSE b

\* s[:n] of Python for n >= 0
Cut(s, n) == SubSeq(s, 1, Min(n, Len(s)))

UpperCase ==
    <<"A","B","C","D","E","F","G","H","I","J","K","L","M",
      "N","O","P","Q","R","S","T","U","V","W","X","Y","Z">>

LowerCase ==
    <<"a","b","c","d","e","f","g","h","i","j","k","l","m",
      "n","o","p","q","r","s","t","u","v","w","x","y","z">>

LowerChar(c) ==
    IF \E i \in 1..Len(UpperCase) : UpperCase[i] = c
    THEN LowerCase[CHOOSE i \in 1..Len(UpperCase) : UpperCase[i] = c]
    ELSE c

\* str.lower()
Lower(s) == [i \in 1..Len(s) |-> LowerChar(s[i])]

\* a failure text of n characters
ErrText(n) == [i \in 1..n |-> "e"]

\* Python values whose type the response depends on
Str(s) == [type |-> "str", text |-> s]
None == [type |-> "NoneType"]
PyInt(n) == [type |-> "int", n |-> n]
ObjectId(n) == [type |-> "ObjectId", n |-> n]

IsStr(v) == v.type = "str"

\* bool(v) of Python, as `x or default` reads it
Truthy(v) ==
    CASE v.type = "str" -> v.text # <<>>
      [] v.type = "int" -> v.n # 0
      [] v.type = "NoneType" -> FALSE
      [] OTHER -> TRUE

NoneText == <<"N","o","n","e">>

\* the hexadecimal text of an ObjectId, by its number
OidText(n) == <<"o","i","d">> \o [i \in 1..n |-> "f"]

\* str(v)
py_str(v) ==
    CASE v.type = "str" -> v
      [] v.type = "ObjectId" -> Str(OidText(v.n))
      [] v.type = "NoneType" -> Str(NoneText)
      [] OTHER -> Str(<<"?">>)

----------------------------------------------------------------------------
(* Schemas: validation of a submitted payload *)

Count(s, c) == Cardinality({i \in 1..Len(s) : s[i] = c})

IsLetter(c) ==
    \E i \in 1..Len(UpperCase) : UpperCase[i] = c \/ LowerCase[i] = c

\* str.strip() for blanks
RECURSIVE Strip(_)
Strip(s) ==
    IF s = <<>> THEN s
    ELSE IF Head(s) = " " THEN Strip(Tail(s))
    ELSE IF s[Len(s)] = " " THEN Strip(SubSeq(s, 1, Len(s) - 1))
    ELSE s

\* letters in labels separated by single dots, no empty label
DotAtom(s) ==
    /\ s # <<>>
    /\ \A i \in 1..Len(s) : IsLetter(s[i]) \/ s[i] = "."
    /\ s[1] # "."
    /\ s[Len(s)] # "."
    /\ \A i \in 1..(Len(s) - 1) : ~(s[i] = "." /\ s[i + 1] = ".")

\* where the address splits: at its "@" (0 when it has none)
AtIndex(s) ==
    IF \E i \in 1..Len(s) : s[i] = "@"
    THEN CHOOSE i \in 1..Len(s) : s[i] = "@" /\ \A j \in (i + 1)..Len(s) : s[j] # "@"
    ELSE 0

LocalPart(s) == SubSeq(s, 1, AtIndex(s) - 1)

DomainPart(s) == SubSeq(s, AtIndex(s) + 1, Len(s))

\* EmailStr accepts the text (over letters, ".", "@" and blanks)
EmailValid(raw) ==
    LET s == Strip(raw) IN
    /\ Count(s, "@") = 1
    /\ DotAtom(LocalPart(s))
    /\ DotAtom(DomainPart(s))
    /\ Count(DomainPart(s), ".") >= 1

\* the value EmailStr yields: blanks stripped, the domain lower-cased
EmailStr(raw) ==
    LET s == Strip(raw) IN LocalPart(s) \o <<"@">> \o Lower(DomainPart(s))

\* a schema that takes owner_email as plain text
Workspace_valid_any(p) == TRUE

Workspace_valid(p) == EmailValid(p.owner_email)

\* Workspace(...).model_dump()
Workspace_dump(p) == [name |-> p.name, owner_email |-> EmailStr(p.owner_email)]

Prospect_valid(p) == EmailValid(p.email)

\* Prospect(...).model_dump()
Prospect_dump(p) == [p EXCEPT !.email = EmailStr(p.email)]

\* SequenceStep.day_offset: int = Field(ge=0)
Campaign_valid(p) == \A i \in 1..Len(p.sequence) : p.sequence[i].day_offset >= 0

\* Campaign(...).model_dump()
Campaign_dump(p) == p

\* Event(...).model_dump()
Event_dump(p) == p

----------------------------------------------------------------------------
(* Sample inputs *)

Names == { <<"w","s">> }

SampleEmails ==
    { <<"a","@","b",".","c","o">>,
      <<"A","@","B",".","c","o">>,
      <<" ","a","@","b",".","c","o">>,
      <<"a","b",".","c","o">>,
      <<"a","@","b">>,
      <<"a","@","@","b",".","c","o">>,
      <<>> }

WorkspacePayloads == [name : Names, owner_email : SampleEmails]

ProspectPayloads ==
    [email : SampleEmails, first_name : {Str(<<"A","n","n">>)},
     last_name : {None}, company : {None}, title : {None}]

Step(d) == [day_offset |-> d, subject |-> <<"s">>, body |-> <<"b">>]

CampaignPayloads ==
    [name : Names, workspace_id : { <<"o","i","d">> },
     sequence : { <<>>, <<Step(0), Step(3)>>, <<Step(3), Step(0)>>, <<Step(-1)>> }]

EventPayloads ==
    [type : { <<"o","p","e","n">> }, properties : { {}, {[key |-> <<"k">>, value |-> PyInt(1)]} }]

----------------------------------------------------------------------------
(* Document store adapter (database.py) *)

Collections == {"workspace", "prospect", "campaign", "event"}

TotalRecords ==
    Len(store["workspace"]) + Len(store["prospect"])
        + Len(store["campaign"]) + Len(store["event"])

\* the record the store keeps for `data`: the data plus what the store adds
Persisted(data, n) == [_id |-> ObjectId(n), fields |-> data]

\* create_document(collection, data) when the store is reachable: one record is
\* appended to the named collection under a fresh identifier
Inserted(collection, data) ==
    [store EXCEPT ![collection] = Append(@, Persisted(data, nextId))]

\* the identifier create_document returns: a string
InsertedId == py_str(ObjectId(nextId))

\* get_documents(collection, {}, limit) when the store is reachable: the lists it
\* may return. A positive limit bounds the result; the contract gives a limit that
\* is no positive count no meaning (a document-store cursor reads 0 as "no limit"
\* and a negative number by its magnitude), so any prefix may come back.
get_documents(collection, limit) ==
    LET all == store[collection] IN
    IF limit >= 1 THEN { Cut(all, limit) }
    ELSE { SubSeq(all, 1, k) : k \in 0..Len(all) }

----------------------------------------------------------------------------
(* Responses *)

NoRequest == [none |-> TRUE]

Reply(route, status, req, body) ==
    [route |-> route, status |-> status, req |-> req, body |-> body]

\* the framework's answer to a payload the schema rejects
ValidationError == [detail |-> <<"v","a","l","u","e","_","e","r","r","o","r">>]

\* the framework's answer to an exception no handler catches
ServerError == [detail |-> <<>>]

Init ==
    /\ db \in {"absent", "down", "up"}
    /\ store = [c \in Collections |-> <<>>]
    /\ nextId = 1
    /\ issued = <<>>
    /\ OPENAI_API_KEY \in {None, Str(<<>>), Str(<<"s","k">>)}
    /\ gen = [pc |-> "idle", req |-> NoRequest, calls |-> 0]
    /\ response = Reply("none", 0, NoRequest, NoRequest)

\* the store becomes unreachable, or reachable again; an absent handle stays absent
StoreOutage ==
    /\ db \in {"down", "up"}
    /\ db' = IF db = "up" THEN "down" ELSE "up"
    /\ UNCHANGED <<store, nextId, issued, OPENAI_API_KEY, gen, response>>

----------------------------------------------------------------------------
(* GET / and GET /test *)

root ==
    /\ response' = Reply("root", 200, NoRequest,
                         [message |-> <<"r","u","n","n","i","n","g">>])
    /\ UNCHANGED <<db, store, nextId, issued, OPENAI_API_KEY, gen>>

AppCollections == <<"workspace", "prospect", "campaign", "event">>

\* db.list_collection_names(): the collections that hold a record, then `others`
\* collections of the database this program never writes
RECURSIVE ExistingFrom(_)
ExistingFrom(i) ==
    IF i > Len(AppCollections) THEN <<>>
    ELSE (IF store[AppCollections[i]] # <<>>
          THEN <<[name |-> AppCollections[i], k |-> 0]>> ELSE <<>>)
         \o ExistingFrom(i + 1)

list_collection_names(others) ==
    ExistingFrom(1) \o [i \in 1..others |-> [name |-> "other", k |-> i]]

Status(status, detail) == [status |-> status, detail |-> detail]

\* "Set"/"Not Set" for DATABASE_URL, and DATABASE_NAME or ""
UrlStatus(url) == Str(IF url # <<>> THEN <<"S","e","t">> ELSE <<"N","o","t"," ","S","e","t">>)

\* the object test_database builds: `state` is the store as the probe finds it,
\* `url` and `name` what the environment holds (empty when unset), `others` and
\* `text` what the probe yields (the collections listed, or the failure's text)
test_database_body(state, url, name, others, text) ==
    LET start == [backend |-> "Running",
                  database |-> Status("Not Available", <<>>),
                  database_url |-> None, database_name |-> None,
                  connection_status |-> "Not Connected",
                  collections |-> <<>>]
        avail == [start EXCEPT !.database_url = UrlStatus(url),
                               !.database_name = Str(name)]
    IN  CASE state = "absent" ->
               [start EXCEPT !.database = Status("Available but not initialized", <<>>)]
          [] state = "down" ->
               [avail EXCEPT !.database =
                   Status("Connected but Error", Cut(text, ProbeErrorCut))]
          [] OTHER ->
               [avail EXCEPT
                  !.collections = Cut(list_collection_names(others), CollectionsCut),
                  !.database = Status("Connected & Working", <<>>),
                  !.connection_status = "Connected"]

\* test_database without the inner try: the probe's failure escapes the handler
test_database_raising(state, url, name, others, text) ==
    IF state = "down"
    THEN [status |-> 500, body |-> ServerError]
    ELSE [status |-> 200, body |-> test_database_body(state, url, name, others, text)]

\* test_database: every path ends in `return response`
test_database_result(state, url, name, others, text) ==
    [status |-> 200, body |-> test_database_body(state, url, name, others, text)]

ProbeErrLens == {0, ProbeErrorCut, ProbeErrorCut + 1, MaxErrLen}

OtherCounts == {0, CollectionsCut - 1, CollectionsCut, MaxOtherCollections}

EnvTexts == { <<>>, <<"x">> }

\* what the probe can yield in the store's present state: a listing when it is
\* reachable, a failure text when it is not, nothing when there is no handle
Probes ==
    CASE db = "up" -> [others : OtherCounts, n : {0}]
      [] db = "down" -> [others : {0}, n : ProbeErrLens]
      [] OTHER -> [others : {0}, n : {0}]

test_database ==
    \E env \in EnvTexts, probe \in Probes :
        LET r == test_database_result(db, env, env, probe.others, ErrText(probe.n))
        IN  /\ response' = Reply("test", r.status,
                                 [db |-> db, env |-> env, probe |-> probe], r.body)
            /\ UNCHANGED <<db, store, nextId, issued, OPENAI_API_KEY, gen>>

----------------------------------------------------------------------------
(* The create routes *)

\* {"id": <id>, **<model>.model_dump()}
CreatedAliased(id, data) ==
    [id |-> id, fields |-> data, _id |-> ObjectId(nextId)]

Created(id, data) == [id |-> id, fields |-> data]

\* a create route: the schema's verdict, then create_document, then the reply
Create(route, collection, p, valid, data, body) ==
    IF ~valid
    THEN /\ response' = Reply(route, 422, p, ValidationError)
         /\ UNCHANGED <<db, store, nextId, issued, OPENAI_API_KEY, gen>>
    ELSE IF db # "up"
    THEN /\ response' = Reply(route, 500, p, ServerError)
         /\ UNCHANGED <<db, store, nextId, issued, OPENAI_API_KEY, gen>>
    ELSE /\ TotalRecords < MaxRecords
         /\ store' = Inserted(collection, data)
         /\ nextId' = nextId + 1
         /\ issued' = Append(issued, InsertedId)
         /\ response' = Reply(route, 200, p, body)
         /\ UNCHANGED <<db, OPENAI_API_KEY, gen>>

WorkspaceCollection == "workspace"

\* create_prospect writing under another route's collection name
ProspectCollectionWrong == "workspace"

ProspectCollection == "prospect"

CampaignCollection == "campaign"

EventCollection == "event"

create_workspace(payloads) ==
    \E p \in payloads :
        Create("workspaces", WorkspaceCollection, p, Workspace_valid(p),
               Workspace_dump(p), Created(InsertedId, Workspace_dump(p)))

create_prospect(payloads) ==
    \E p \in payloads :
        Create("prospects", ProspectCollection, p, Prospect_valid(p),
               Prospect_dump(p), Created(InsertedId, Prospect_dump(p)))

create_campaign(payloads) ==
    \E p \in payloads :
        Create("campaigns", CampaignCollection, p, Campaign_valid(p),
               Campaign_dump(p), Created(InsertedId, Campaign_dump(p)))

record_event(payloads) ==
    \E p \in payloads :
        Create("events", EventCollection, p, TRUE, Event_dump(p), [id |-> InsertedId])

----------------------------------------------------------------------------
(* GET /campaigns *)

\* for it in items: it["_id"] = str(it.get("_id"))
ItemsUnconverted(items) == items

ItemsReturned(items) ==
    [i \in 1..Len(items) |-> [items[i] EXCEPT !._id = py_str(items[i]._id)]]

\* the loop rewrites the store's own records instead of the copies it was handed
StoreAfterListAliased(items) ==
    [store EXCEPT !["campaign"] =
        [i \in 1..Len(@) |-> IF i <= Len(items) THEN ItemsReturned(items)[i] ELSE @[i]]]

\* the store after list_campaigns: get_documents hands out copies, nothing is written
StoreAfterList(items) == store

\* the limit query parameter: omitted, or any integer
Queries == {[given |-> FALSE, l |-> 0]} \cup [given : {TRUE}, l : (-1)..MaxLimit]

list_campaigns(queries) ==
    \E q \in queries :
        LET limit == IF q.given THEN q.l ELSE DefaultLimit
            req == [given |-> q.given, limit |-> limit]
        IN  /\ IF db # "up"
               THEN /\ response' = Reply("list_campaigns", 500, req, ServerError)
                    /\ UNCHANGED store
               ELSE \E items \in get_documents("campaign", limit) :
                      /\ response' = Reply("list_campaigns", 200, req,
                                           [items |-> ItemsReturned(items)])
                      /\ store' = StoreAfterList(items)
            /\ UNCHANGED <<db, nextId, issued, OPENAI_API_KEY, gen>>

----------------------------------------------------------------------------
(* POST /generate *)

SubjectPrefix ==
    <<"Q","u","i","c","k"," ","i","d","e","a"," ","a","b","o","u","t"," ">>

SubjectFor ==
    <<" ","f","o","r"," ">>

BodyGreeting ==
    <<"H","i"," ","t","h","e","r","e",",","\n","\n","I"," ","n","o","t","i","c","e","d"," ",
      "y","o","u","'","r","e"," ","w","o","r","k","i","n","g"," ","w","i","t","h"," ">>

BodyWeBuilt ==
    <<"."," ","W","e"," ","b","u","i","l","t"," ">>

BodyCouldHelp ==
    <<" ","t","h","a","t"," ","c","o","u","l","d"," ","h","e","l","p"," ","a"," ","l","o",
      "t",".","\n","\n","W","o","u","l","d"," ","y","o","u"," ","b","e"," ","o","p","e","n",
      " ","t","o"," ">>

BodySignature ==
    <<"\n","\n","B","e","s","t",",","\n","Y","o","u","r"," ","N","a","m","e">>

QuickQuestion ==
    <<"Q","u","i","c","k"," ","q","u","e","s","t","i","o","n">>

GenericBody ==
    <<"H","i",","," ","q","u","i","c","k"," ","n","o","t","e"," ","a","b","o","u","t"," ",
      "o","u","r"," ","p","r","o","d","u","c","t",".">>

GenerationErrorPrefix ==
    <<"G","e","n","e","r","a","t","i","o","n"," ","e","r","r","o","r",":"," ">>

DefaultTone ==
    <<"f","r","i","e","n","d","l","y">>

DefaultCallToAction ==
    <<"B","o","o","k"," ","a"," ","q","u","i","c","k"," ","c","a","l","l","?">>

Acme ==
    <<"A","c","m","e">>

Startups ==
    <<"s","t","a","r","t","u","p","s">>

Absent == [type |-> "absent"]

\* GenerateRequest(...): an omitted tone or call_to_action takes its default
GenerateRequest(p) ==
    [product |-> p.product, audience |-> p.audience,
     tone |-> IF p.tone = Absent THEN DefaultTone ELSE p.tone.text,
     call_to_action |-> IF p.call_to_action = Absent
                        THEN DefaultCallToAction ELSE p.call_to_action.text]

\* the template without .lower()
template_body_as_given(req) ==
    BodyGreeting \o req.audience \o BodyWeBuilt \o req.product
        \o BodyCouldHelp \o req.call_to_action \o BodySignature

template_subject(req) == SubjectPrefix \o req.product \o SubjectFor \o req.audience

template_body(req) ==
    BodyGreeting \o req.audience \o BodyWeBuilt \o req.product
        \o BodyCouldHelp \o Lower(req.call_to_action) \o BodySignature

\* the handler's return value through response_model=EmailPreview: both fields
\* must be strings, or the framework answers with a server error
EmailPreview(subject, body) ==
    IF IsStr(subject) /\ IsStr(body)
    THEN [status |-> 200, body |-> [subject |-> subject.text, body |-> body.text]]
    ELSE [status |-> 500, body |-> ServerError]

\* HTTPException(status_code=500, detail=f"Generation error: {str(e)}")
generation_error_uncut(text) ==
    [status |-> 500, body |-> [detail |-> GenerationErrorPrefix \o text]]

\* HTTPException(status_code=500, detail=f"Generation error: {str(e)[:150]}")
generation_error(text) ==
    [status |-> 500,
     body |-> [detail |-> GenerationErrorPrefix \o Cut(text, GenerationErrorCut)]]

\* dict.get(key)
dict_get(v) == IF v = Absent THEN None ELSE v

\* x or default
Or(v, default) == IF Truthy(v) THEN v ELSE default

\* the inner try without its except: a failed parse reaches the outer handler
parse_content_uncaught(content) ==
    IF content.value.type = "str" /\ content.json.kind = "object"
    THEN EmailPreview(Or(dict_get(content.json.subject), Str(QuickQuestion)),
                      Or(dict_get(content.json.body), Str(GenericBody)))
    ELSE generation_error(content.error)

\* lines 152-159: json.loads(content) and the two fields, or the fallback.
\* content.value is the reply's content, content.json what json.loads makes of it
parse_content(content) ==
    IF content.value.type = "str" /\ content.json.kind = "object"
    THEN EmailPreview(Or(dict_get(content.json.subject), Str(QuickQuestion)),
                      Or(dict_get(content.json.body), Str(GenericBody)))
    ELSE EmailPreview(Str(QuickQuestion), content.value)

\* what the outbound call brought back, to the handler's return or raise
generate_result(outcome) ==
    IF outcome.kind = "content"
    THEN parse_content(outcome.content)
    ELSE generation_error(outcome.text)

\* the outcomes of the outbound call: requests.post raises ("transport": timeout,
\* connection failure), raise_for_status raises ("http_status"), r.json() or the
\* path choices[0].message.content raises ("envelope"), or content is read
Failures(lens) ==
    [kind : {"transport", "http_status", "envelope"}, text : {ErrText(n) : n \in lens}]

FieldValues ==
    {Absent, None, Str(<<>>), Str(<<"H","i">>), PyInt(5)}

Contents ==
    [value : {Str(<<"r","a","w">>)}, error : {ErrText(3)},
     json : [kind : {"invalid", "nonobject"}]
            \cup [kind : {"object"}, subject : FieldValues, body : FieldValues]]
    \cup [value : {None, Str(<<>>)}, error : {ErrText(3)}, json : [kind : {"invalid"}]]

SampleContents ==
    { c \in Contents : c.json.kind = "object" =>
                          c.json.subject = Absent /\ c.json.body \in {Absent, Str(<<"H","i">>)} }

Outcomes(lens, contents) ==
    Failures(lens) \cup [kind : {"content"}, content : contents]

NoOutcome == [kind |-> "none"]

\* the handler up to the outbound call: without a credential it returns the
\* template and calls nothing; with one it issues the call and waits
generate_email(payloads) ==
    \E p \in payloads :
        LET req == GenerateRequest(p) IN
        /\ gen.pc = "idle"
        /\ IF ~Truthy(OPENAI_API_KEY)
           THEN /\ gen' = [pc |-> "idle", req |-> NoRequest, calls |-> 0]
                /\ response' = Reply("generate", 200,
                        [keyed |-> FALSE, payload |-> p, outcome |-> NoOutcome],
                        [subject |-> template_subject(req), body |-> template_body(req)])
           ELSE /\ gen' = [pc |-> "awaiting", req |-> p, calls |-> 1]
                /\ UNCHANGED response
        /\ UNCHANGED <<db, store, nextId, issued, OPENAI_API_KEY>>

GenerateReplied(o) ==
    Reply("generate", generate_result(o).status,
          [keyed |-> TRUE, payload |-> NoRequest, outcome |-> o], generate_result(o).body)

\* a handler that calls again after a failure
generate_reply_retrying(outcomes) ==
    \E o \in outcomes :
        /\ gen.pc = "awaiting"
        /\ IF o.kind # "content" /\ gen.calls < 3
           THEN /\ gen' = [gen EXCEPT !.calls = @ + 1]
                /\ UNCHANGED response
           ELSE /\ gen' = [gen EXCEPT !.pc = "idle", !.req = NoRequest]
                /\ response' = GenerateReplied(o)
        /\ UNCHANGED <<db, store, nextId, issued, OPENAI_API_KEY>>

\* the handler from the outbound call's outcome to its end
generate_reply(outcomes) ==
    \E o \in outcomes :
        /\ gen.pc = "awaiting"
        /\ gen' = [gen EXCEPT !.pc = "idle", !.req = NoRequest]
        /\ response' = GenerateReplied(o)
        /\ UNCHANGED <<db, store, nextId, issued, OPENAI_API_KEY>>

----------------------------------------------------------------------------
(* Specifications *)

SamplePayload ==
    [product |-> Acme, audience |-> Startups, tone |-> Absent, call_to_action |-> Absent]

\* the whole service, each route on a sample of its inputs
Next ==
    \/ StoreOutage
    \/ root
    \/ test_database
    \/ create_workspace({[name |-> <<"w","s">>, owner_email |-> <<"A","@","B",".","c","o">>]})
    \/ create_prospect({p \in ProspectPayloads :
                            p.email \in { <<"a","b",".","c","o">>, <<"a","@","b",".","c","o">> }})
    \/ create_campaign({p \in CampaignPayloads : Len(p.sequence) = 0})
    \/ record_event({p \in EventPayloads : p.properties = {}})
    \/ list_campaigns({q \in Queries : q.l \in {0, 1}})
    \/ generate_email({SamplePayload})
    \/ generate_reply(Outcomes({0, MaxErrLen}, SampleContents))

Spec == Init /\ [][Next]_vars

\* the store routes alone, on every sample payload and every limit
NextStore ==
    \/ create_workspace(WorkspacePayloads)
    \/ create_prospect(ProspectPayloads)
    \/ create_campaign(CampaignPayloads)
    \/ record_event(EventPayloads)
    \/ list_campaigns(Queries)

InitStore == Init /\ OPENAI_API_KEY = None

SpecStore == InitStore /\ [][NextStore]_vars

GeneratePayloads ==
    [product : {<<>>, Acme, <<"X">>}, audience : {<<>>, Startups, <<"Y","z">>},
     tone : {Absent, Str(<<"d","r","y">>)},
     call_to_action : {Absent, Str(<<>>), Str(<<"G","O","?">>)}]

\* the generation service without a credential, on every sample payload
NextTemplate == generate_email(GeneratePayloads)

InitTemplate == Init /\ ~Truthy(OPENAI_API_KEY)

SpecTemplate == InitTemplate /\ [][NextTemplate]_vars

\* the generation service with a credential, on every outcome of the outbound call
NextUpstream ==
    \/ generate_email({SamplePayload})
    \/ generate_reply(Outcomes(0..MaxErrLen, Contents))

InitUpstream == Init /\ Truthy(OPENAI_API_KEY)

SpecUpstream == InitUpstream /\ [][NextUpstream]_vars

----------------------------------------------------------------------------
(* Properties *)

Last(s) == s[Len(s)]

\* t occurs in s
Contains(s, t) ==
    \E i \in 0..(Len(s) - Len(t)) : SubSeq(s, i + 1, i + Len(t)) = t

Generated == response.route = "generate"

Upstream == Generated /\ response.req.keyed

UpstreamFailed(kinds) == Upstream /\ response.req.outcome.kind \in kinds

\* C1 as stated: when the external call times out or returns a non-success status,
\* POST /generate responds with status 500 and the message it carries is at most
\* 150 characters long, whatever the length of the failure text.
C1_MessageAtMost150 ==
    UpstreamFailed({"transport", "http_status"}) =>
        /\ response.status = 500
        /\ Len(response.body.detail) <= GenerationErrorCut

\* C1 amended: when the external call times out or returns a non-success status,
\* POST /generate responds with status 500 and its message is "Generation error: "
\* followed by the first 150 characters of the failure text: the failure text in
\* it is at most 150 characters long, the whole message at most 168.
C1_FailureTextCutTo150 ==
    UpstreamFailed({"transport", "http_status"}) =>
        LET text == response.req.outcome.text
            detail == response.body.detail
            p == Len(GenerationErrorPrefix)
        IN  /\ response.status = 500
            /\ Len(detail) = p + Min(Len(text), GenerationErrorCut)
            /\ SubSeq(detail, 1, p) = GenerationErrorPrefix
            /\ \A i \in 1..(Len(detail) - p) : detail[p + i] = text[i]
            /\ Len(detail) <= 168

\* C1 witness: a timeout whose text is longer than the cut was answered
C1_Witness ==
    /\ UpstreamFailed({"transport"})
    /\ Len(response.req.outcome.text) > GenerationErrorCut
    /\ response.status = 500

RawText(o) == IF o.kind = "content" /\ IsStr(o.content.value) THEN {o.content.value.text} ELSE {}

\* C2 as stated: on the credentialed path, for any transport failure, non-success
\* status or malformed JSON reply the request does not fail: it returns subject
\* "Quick question" with the raw reply text (a reply was received, its parse
\* failed) or the generic body (the body field was absent) as body.
C2_NeverFails ==
    Upstream =>
        LET o == response.req.outcome
            malformed == o.kind = "content" /\ o.content.json.kind # "object"
            bodyless == o.kind = "content" /\ o.content.json.kind = "object"
                          /\ o.content.json.body = Absent
        IN  (o.kind # "content" \/ malformed \/ bodyless) =>
               /\ response.status = 200
               /\ response.body.subject = QuickQuestion
               /\ response.body.body \in RawText(o) \cup {GenericBody}

\* C2 amended: on the credentialed path the fallback applies only once a reply's
\* content was read. Content that is text and does not parse to a JSON object is
\* returned as the body under subject "Quick question"; a parsed object without a
\* non-empty body gets the generic body, under the reply's subject, or "Quick
\* question" when that is absent or empty. A transport failure, a non-success
\* status or a reply whose envelope cannot be read fails the request with status
\* 500 and a "Generation error: " message, and so does a subject, body or content
\* that is not text (status 500).
C2_FallbackOnContentOnly ==
    Upstream =>
        LET o == response.req.outcome
            j == o.content.json
            subj == IF j.subject = Absent THEN None ELSE j.subject
            body == IF j.body = Absent THEN None ELSE j.body
        IN  CASE o.kind # "content" ->
                   /\ response.status = 500
                   /\ SubSeq(response.body.detail, 1, Len(GenerationErrorPrefix))
                        = GenerationErrorPrefix
              [] ~IsStr(o.content.value) -> response.status = 500
              [] j.kind # "object" ->
                   /\ response.status = 200
                   /\ response.body.subject = QuickQuestion
                   /\ response.body.body = o.content.value.text
              [] (Truthy(subj) /\ ~IsStr(subj)) \/ (Truthy(body) /\ ~IsStr(body)) ->
                   response.status = 500
              [] OTHER ->
                   /\ response.status = 200
                   /\ response.body.subject =
                        (IF Truthy(subj) THEN subj.text ELSE QuickQuestion)
                   /\ response.body.body =
                        (IF Truthy(body) THEN body.text ELSE GenericBody)

\* C2 witness: a reply whose content is text that is no JSON was answered with the
\* fallback subject and the raw text
C2_Witness ==
    /\ Upstream
    /\ response.req.outcome.kind = "content"
    /\ IsStr(response.req.outcome.content.value)
    /\ response.req.outcome.content.value.text # <<>>
    /\ response.req.outcome.content.json.kind = "invalid"
    /\ response.status = 200
    /\ response.body.subject = QuickQuestion

EmailRoutes == {"workspaces", "prospects"}

SubmittedEmail(r) == IF r.route = "workspaces" THEN r.req.owner_email ELSE r.req.email

\* C3: a POST /workspaces or POST /prospects request whose e-mail field is
\* malformed is rejected with a client error (422) and never reaches the store's
\* create: the store, its identifier counter and the issued identifiers are
\* unchanged by the request.
C3_MalformedEmailRejected ==
    [][(/\ response' # response
        /\ response'.route \in EmailRoutes
        /\ ~EmailValid(SubmittedEmail(response')))
       => (/\ response'.status = 422
           /\ store' = store
           /\ nextId' = nextId
           /\ issued' = issued)]_vars

\* C3 witness: a workspace with a malformed owner_email was rejected while the
\* store was reachable and held a record
C3_Witness ==
    /\ response.route = "workspaces"
    /\ ~EmailValid(response.req.owner_email)
    /\ response.status = 422
    /\ db = "up"
    /\ TotalRecords > 0

DiagnosticFields ==
    {"backend", "database", "database_url", "database_name",
     "connection_status", "collections"}

\* C4: GET /test always answers 200 with the full diagnostic object, with at most
\* 10 collection names, whether the store handle is absent, the probe fails or
\* the store is reachable; a probe failure is reported in the database status
\* text (cut to 80 characters), never raised.
C4_DiagnosticNeverFails ==
    response.route = "test" =>
        /\ response.status = 200
        /\ DOMAIN response.body = DiagnosticFields
        /\ Len(response.body.collections) <= CollectionsCut
        /\ response.req.db = "absent" =>
              /\ response.body.connection_status = "Not Connected"
              /\ response.body.collections = <<>>
        /\ response.req.db = "down" =>
              /\ response.body.connection_status = "Not Connected"
              /\ response.body.database.status = "Connected but Error"
              /\ Len(response.body.database.detail)
                    = Min(response.req.probe.n, ProbeErrorCut)
        /\ response.req.db = "up" =>
              /\ response.body.connection_status = "Connected"
              /\ Len(response.body.collections) >= Min(response.req.probe.others, CollectionsCut)

\* C4 witness: the probe failed with a text longer than the cut and GET /test
\* still answered 200
C4_Witness ==
    /\ response.route = "test"
    /\ response.req.db = "down"
    /\ response.req.probe.n > ProbeErrorCut
    /\ response.status = 200

Listed == response.route = "list_campaigns" /\ response.status = 200

AllIdsAreStrings == \A i \in 1..Len(response.body.items) : IsStr(response.body.items[i]._id)

\* C5 as stated: for every store content and every value of the limit query
\* parameter (default 20), GET /campaigns returns at most limit items and every
\* returned item's identifier is a string.
C5_AtMostLimit ==
    Listed => Len(response.body.items) <= response.req.limit /\ AllIdsAreStrings

\* C5 amended: for every store content and every positive value of the limit query
\* parameter (default 20), GET /campaigns returns at most limit items; for every
\* value of limit, every returned item's identifier is a string.
C5_AtMostPositiveLimit ==
    Listed =>
        /\ response.req.limit >= 1 => Len(response.body.items) <= response.req.limit
        /\ AllIdsAreStrings

\* C5 witness: two campaigns are stored and a listing with limit 1 returned one
C5_Witness ==
    /\ Listed
    /\ response.req.limit = 1
    /\ Len(store["campaign"]) = 2
    /\ Len(response.body.items) = 1

AcmeSubject ==
    <<"Q","u","i","c","k"," ","i","d","e","a"," ","a","b","o","u","t"," ","A","c","m","e",
      " ","f","o","r"," ","s","t","a","r","t","u","p","s">>

LoweredDefaultCallToAction ==
    <<"b","o","o","k"," ","a"," ","q","u","i","c","k"," ","c","a","l","l","?">>


\* C6: without a generation credential POST /generate never fails, makes no
\* outbound call, and its result is a function of the request alone: the subject
\* is "Quick idea about {product} for {audience}" and the body is the fixed
\* template around audience, product and the lower-cased call_to_action (for
\* product Acme, audience startups and the defaults: subject "Quick idea about
\* Acme for startups", body containing "book a quick call?").
C6_TemplateIsPure ==
    /\ ~Truthy(OPENAI_API_KEY) => gen.pc = "idle" /\ gen.calls = 0
    /\ (Generated /\ ~Truthy(OPENAI_API_KEY)) =>
        LET p == response.req.payload
            cta == IF p.call_to_action = Absent
                   THEN DefaultCallToAction ELSE p.call_to_action.text
            subject == response.body.subject
            body == response.body.body
            a == Len(BodyGreeting) + Len(p.audience) + Len(BodyWeBuilt)
                   + Len(p.product) + Len(BodyCouldHelp)
        IN  /\ response.status = 200
            /\ ~response.req.keyed
            /\ subject = SubjectPrefix \o p.product \o SubjectFor \o p.audience
            /\ Len(body) = a + Len(cta) + Len(BodySignature)
            /\ SubSeq(body, 1, a)
                 = BodyGreeting \o p.audience \o BodyWeBuilt \o p.product \o BodyCouldHelp
            /\ \A i \in 1..Len(cta) : body[a + i] = LowerChar(cta[i])
            /\ SubSeq(body, a + Len(cta) + 1, Len(body)) = BodySignature
            /\ p = SamplePayload =>
                  /\ subject = AcmeSubject
                  /\ Contains(body, LoweredDefaultCallToAction)

\* C6 witness: the template answered the request for Acme and startups, whose
\* default call_to_action has an upper-case letter
C6_Witness ==
    /\ Generated
    /\ ~response.req.keyed
    /\ response.req.payload = SamplePayload
    /\ response.status = 200

CreateRoutes == {"workspaces", "prospects", "campaigns", "events"}

CollectionOf(route) ==
    CASE route = "workspaces" -> "workspace"
      [] route = "prospects" -> "prospect"
      [] route = "campaigns" -> "campaign"
      [] OTHER -> "event"

CreatedOn(routes) == response.route \in routes /\ response.status = 200

\* the identifier in the response is the stored text of the new record's identifier
ReturnsNewId ==
    /\ IsStr(response.body.id)
    /\ response.body.id.text # <<>>
    /\ response.body.id = py_str(Last(store[CollectionOf(response.route)])._id)

\* C7 as stated: a successful POST /workspaces, /prospects or /campaigns returns
\* the non-empty identifier the store assigned to the new record, and its
\* remaining fields equal the submitted fields unchanged.
C7_SubmittedFieldsUnchanged ==
    CreatedOn({"workspaces", "prospects", "campaigns"}) =>
        /\ ReturnsNewId
        /\ DOMAIN response.body = {"id", "fields"}
        /\ response.body.fields = response.req

\* the e-mail address as the schema hands it on: blanks around it dropped, the
\* part after the "@" in lower case
Normalised(raw, out) ==
    LET s == Strip(raw)
        at == AtIndex(s)
    IN  /\ Len(out) = Len(s)
        /\ \A i \in 1..Len(s) : out[i] = (IF i > at THEN LowerChar(s[i]) ELSE s[i])

\* C7 amended: a successful POST /workspaces, /prospects or /campaigns returns the
\* non-empty identifier the store assigned to the new record, and its remaining
\* fields are the submitted fields as the schema validated them: an e-mail field
\* (owner_email, email) comes back normalised (surrounding blanks dropped, domain
\* in lower case), every other field as validated (campaign steps in their
\* submitted order), regardless of what the store adds to the record it persists.
C7_ValidatedFieldsReturned ==
    CreatedOn({"workspaces", "prospects", "campaigns"}) =>
        LET req == response.req
            f == response.body.fields
        IN  /\ ReturnsNewId
            /\ DOMAIN response.body = {"id", "fields"}
            /\ DOMAIN f = DOMAIN req
            /\ response.route = "workspaces" =>
                  f.name = req.name /\ Normalised(req.owner_email, f.owner_email)
            /\ response.route = "prospects" =>
                  /\ Normalised(req.email, f.email)
                  /\ \A k \in DOMAIN req \ {"email"} : f[k] = req[k]
            /\ response.route = "campaigns" => f = req

\* C7 witness: a workspace whose owner_email has an upper-case domain was created
C7_Witness ==
    /\ CreatedOn({"workspaces"})
    /\ response.req.owner_email = <<"A","@","B",".","c","o">>
    /\ response.body.fields.owner_email = <<"A","@","b",".","c","o">>

\* C8: each POST /generate request issues at most one outbound request: exactly
\* one with a credential, none without; after the call's failure the request
\* ends without a second attempt.
C8_SingleOutboundCall ==
    /\ [](/\ gen.calls <= 1
          /\ gen.pc = "awaiting" => Truthy(OPENAI_API_KEY) /\ gen.calls = 1
          /\ Generated => gen.calls = (IF response.req.keyed THEN 1 ELSE 0)
          /\ Generated => (response.req.keyed <=> Truthy(OPENAI_API_KEY)))
    /\ [][(gen.pc = "awaiting" /\ gen' # gen)
            => (gen'.pc = "idle" /\ gen'.calls = gen.calls /\ response'.route = "generate")]_vars

\* C8 witness: the outbound call failed and the request ended after that one call
C8_Witness ==
    /\ UpstreamFailed({"transport", "http_status", "envelope"})
    /\ gen.pc = "idle"
    /\ gen.calls = 1

AllIds ==
    UNION { { store[c][i]._id : i \in 1..Len(store[c]) } : c \in Collections }

\* a step keeps every record in place and unchanged
RecordsKept ==
    \A c \in Collections :
        /\ Len(store'[c]) >= Len(store[c])
        /\ SubSeq(store'[c], 1, Len(store[c])) = store[c]

\* a successful create request adds one record, to its own collection, under an
\* identifier no earlier request was given
OneRecordAdded ==
    (response' # response /\ response'.route \in CreateRoutes /\ response'.status = 200) =>
        LET c == CollectionOf(response'.route) IN
        /\ Len(store'[c]) = Len(store[c]) + 1
        /\ \A d \in Collections \ {c} : store'[d] = store[d]
        /\ Last(store'[c]).fields =
              (IF response'.route = "events" THEN response'.req ELSE response'.body.fields)
        /\ response'.body.id = py_str(Last(store'[c])._id)
        /\ issued' = Append(issued, response'.body.id)
        /\ \A i \in 1..Len(issued) : issued[i] # response'.body.id

\* C9: the store is append-only under any interleaving of requests: a record once
\* persisted stays, with the same content; each successful create request adds
\* exactly one record to its own collection; the identifiers returned by distinct
\* create requests are pairwise distinct.
C9_AppendOnly ==
    /\ [](/\ Len(issued) = TotalRecords
          /\ Cardinality(AllIds) = TotalRecords
          /\ \A i, j \in 1..Len(issued) : i # j => issued[i] # issued[j])
    /\ [][RecordsKept /\ OneRecordAdded]_vars

\* C9 witness: two create requests have succeeded, on different routes
C9_Witness ==
    /\ Len(issued) >= 2
    /\ \E c \in Collections : Len(store[c]) = 1

ReadRoutes == {"root", "test", "list_campaigns", "generate"}

\* C10: GET /, GET /test, GET /campaigns and POST /generate leave the store
\* unchanged on every path, the failures of the outbound call and of the probe
\* included: only a successful create request writes to the store.
C10_ReadsLeaveStore ==
    [][/\ (response' # response /\ response'.route \in ReadRoutes) => store' = store
       /\ gen' # gen => store' = store
       /\ store' # store =>
            (response' # response /\ response'.route \in CreateRoutes
               /\ response'.status = 200)]_vars

\* C10 witness: a listing returned a stored campaign
C10_Witness ==
    /\ Listed
    /\ Len(response.body.items) >= 1
    /\ store["campaign"] # <<>>

====
